---- MODULE Spec2Model ----
(***************************************************************************)
(* Model of src/src/main.rs: the Sudoku constraint propagator (reduce with *)
(* its nested set / attend_to_pos / check_region), the validator, the      *)
(* successor iterator (NextSudokuBoardsIterator) and next_states.          *)
(*                                                                         *)
(* A board is a function over the flat indices 0..80 (Board<Cell>, index   *)
(* y * 9 + x); a cell is None (0) or a Space 1..9; a SudokuChoices value   *)
(* ([bool; 9]) is the set of the values whose flag is true.                *)
(***************************************************************************)
EXTENDS Integers, Sequences, FiniteSets, TLC

\* ------------------------------------------------------------ constants
\* [Cell; 81]
NumCells == 81
\* row length in Board::index, y * 9 + x
Side == 9
\* box side, (x / 3) * 3
BoxSide == 3
\* Option<Space>::None
None == 0

Positions == 0 .. (NumCells - 1)
Spaces == 1 .. Side
Idx(x, y) == y * Side + x
PosX(pos) == pos % Side
PosY(pos) == pos \div Side

\* ------------------------------------------------------- SudokuChoices
ChoicesNew(initial_choice) ==
    IF initial_choice = None THEN Spaces ELSE {initial_choice}

\* SudokuChoices::iter: enumerate the flags, keep i + 1 where the flag is
\* set: the values present, ascending
ChoicesIter(choices) ==
    SelectSeq([v \in 1 .. Side |-> v], LAMBDA v : v \in choices)

\* Iterator::take(n).collect()
Take(seq, n) == IF Len(seq) <= n THEN seq ELSE SubSeq(seq, 1, n)

\* PossibilitySpaceBoard::new
PossNew(b) == [pos \in Positions |-> ChoicesNew(b[pos])]

\* SolutionIdentifiable::is_solution
is_solution(b) == \A pos \in Positions : b[pos] # None

\* Scoreable::score
score(b) == Cardinality({pos \in Positions : b[pos] = None})

\* ---------------------------------------------------------------- set
\* The recursion of set is kept as an explicit call stack: a frame is a call
\* set(.., pos, space) standing at target k of its for i in 0..9 loop, where
\* target 3 * i is (i, y), 3 * i + 1 is (x, i) and 3 * i + 2 the box cell.
NumSetTargets == 27
TargetsPerI == 3

SetTarget(pos, k) ==
    LET x == PosX(pos)
        y == PosY(pos)
        i == k \div TargetsPerI
        left == (x \div BoxSide) * BoxSide
        top == (y \div BoxSide) * BoxSide
    IN  CASE k % TargetsPerI = 0 -> Idx(i, y)
          [] k % TargetsPerI = 1 -> Idx(x, i)
          [] OTHER -> Idx(left + (i % BoxSide), top + (i \div BoxSide))

\* the guards i != x, i != y, (sx, sy) != (x, y)
SetTargetAttended(pos, k) ==
    LET x == PosX(pos)
        y == PosY(pos)
        i == k \div TargetsPerI
    IN  CASE k % TargetsPerI = 0 -> i # x
          [] k % TargetsPerI = 1 -> i # y
          [] OTHER -> SetTarget(pos, k) # pos

\* attend_to_pos as it would be if its arm &[only] had no guard
\* board[pos].is_none()
attend_to_pos_unguarded(b, poss, pos, space) ==
    LET poss1 == [poss EXCEPT ![pos] = @ \ {space}]
        remaining_possibilities == Take(ChoicesIter(poss1[pos]), 2)
    IN  IF Len(remaining_possibilities) = 0
        THEN [poss |-> poss1, arm |-> "empty", only |-> None]
        ELSE IF Len(remaining_possibilities) = 1
        THEN [poss |-> poss1, arm |-> "set", only |-> remaining_possibilities[1]]
        ELSE [poss |-> poss1, arm |-> "none", only |-> None]

\* attend_to_pos up to its match: the possibility board with space removed
\* at pos, and the arm taken: "empty" (&[] => true), "set" (&[only] with the
\* cell undetermined: the recursive call set(.., pos, only)), "none" (false)
attend_to_pos(b, poss, pos, space) ==
    LET poss1 == [poss EXCEPT ![pos] = @ \ {space}]
        remaining_possibilities == Take(ChoicesIter(poss1[pos]), 2)
    IN  IF Len(remaining_possibilities) = 0
        THEN [poss |-> poss1, arm |-> "empty", only |-> None]
        ELSE IF Len(remaining_possibilities) = 1 /\ b[pos] = None
        THEN [poss |-> poss1, arm |-> "set", only |-> remaining_possibilities[1]]
        ELSE [poss |-> poss1, arm |-> "none", only |-> None]

\* the targets k .. k_end - 1 of one iteration of set's loop, as far as they
\* run without a recursive call ("none": done, the loop goes on)
RECURSIVE SetIteration(_, _, _, _, _, _)
SetIteration(b, poss, pos, space, k, k_end) ==
    IF k >= k_end
    THEN [poss |-> poss, out |-> "none", k |-> k, only |-> None]
    ELSE IF ~SetTargetAttended(pos, k)
    THEN SetIteration(b, poss, pos, space, k + 1, k_end)
    ELSE LET r == attend_to_pos(b, poss, SetTarget(pos, k), space)
         IN  CASE r.arm = "empty" ->
                    [poss |-> r.poss, out |-> "invalid", k |-> k, only |-> None]
               [] r.arm = "set" ->
                    [poss |-> r.poss, out |-> "call", k |-> k, only |-> r.only]
               [] OTHER -> SetIteration(b, r.poss, pos, space, k + 1, k_end)

\* set's loop from target k, as far as it runs without a recursive call:
\* to its end ("done", set returns false), to an attend_to_pos that returns
\* true ("invalid", is_invalid = true; break) or to a recursive call of set
\* ("call", at target k for the value only).
RECURSIVE SetLoop(_, _, _, _, _)
SetLoop(b, poss, pos, space, k) ==
    IF k >= NumSetTargets
    THEN [poss |-> poss, out |-> "done", k |-> k, only |-> None]
    ELSE LET r == SetIteration(b, poss, pos, space, k,
                               ((k \div TargetsPerI) + 1) * TargetsPerI)
         IN  IF r.out = "none" THEN SetLoop(b, r.poss, pos, space, r.k)
             ELSE r

\* ------------------------------------------------------- check_region
\* the region iterators of reduce, without the cell itself:
\* (0..9).filter(|i| *i != x).map(|i| (i, y)), and so on
RowOthersOf ==
    [pos \in Positions |->
        {Idx(j, PosY(pos)) : j \in (0 .. (Side - 1)) \ {PosX(pos)}}]
ColOthersOf ==
    [pos \in Positions |->
        {Idx(PosX(pos), j) : j \in (0 .. (Side - 1)) \ {PosY(pos)}}]
BoxOthersOf ==
    [pos \in Positions |->
        LET left == PosX(pos) - (PosX(pos) % BoxSide)
            top == PosY(pos) - (PosY(pos) % BoxSide)
        IN  {Idx(left + (j % BoxSide), top + (j \div BoxSide)) :
                j \in 0 .. (Side - 1)} \ {pos}]
RowOthers(pos) == RowOthersOf[pos]
ColOthers(pos) == ColOthersOf[pos]
BoxOthers(pos) == BoxOthersOf[pos]

\* check_region as it would be if it struck from new_possibilities every
\* candidate of the region's cells, not only the values determined there
check_region_strikes(b, poss, new_possibilities, region_positions) ==
    LET solo_candidates ==
            {v \in new_possibilities :
                \A p \in region_positions : v \notin poss[p]}
    IN  IF Cardinality(solo_candidates) = 1
        THEN [np |-> solo_candidates, brk |-> TRUE]
        ELSE [np |-> solo_candidates, brk |-> FALSE]

\* check_region as it would be if it left the values of the region's
\* determined cells in new_possibilities
check_region_keeps_values(b, poss, new_possibilities, region_positions) ==
    LET solo_candidates ==
            {v \in new_possibilities :
                \A p \in region_positions : v \notin poss[p]}
    IN  IF Cardinality(solo_candidates) = 1
        THEN [np |-> solo_candidates, brk |-> TRUE]
        ELSE [np |-> new_possibilities, brk |-> FALSE]

\* check_region as it would be without its solo candidates
check_region_no_solo(b, poss, new_possibilities, region_positions) ==
    [np |-> {v \in new_possibilities :
                \A p \in region_positions : b[p] # v},
     brk |-> FALSE]

\* check_region: the values of the region's determined cells leave
\* new_possibilities, every candidate of a cell of the region leaves
\* solo_candidates (a copy of new_possibilities as it was on entry); a single
\* solo candidate becomes the cell's candidate set and breaks out.
\* Returns the new candidate set and whether ControlFlow::Break was returned.
check_region(b, poss, new_possibilities, region_positions) ==
    LET solo_candidates ==
            {v \in new_possibilities :
                \A p \in region_positions : v \notin poss[p]}
    IN  IF Cardinality(solo_candidates) = 1
        THEN [np |-> solo_candidates, brk |-> TRUE]
        ELSE [np |-> {v \in new_possibilities :
                        \A p \in region_positions : b[p] # v},
              brk |-> FALSE]

\* the 'checks block as it would be without its box check
Checks_without_box(b, poss, pos) ==
    LET r1 == check_region(b, poss, poss[pos], RowOthers(pos))
    IN  IF r1.brk THEN r1.np
        ELSE check_region(b, poss, r1.np, ColOthers(pos)).np

\* the 'checks block: row, then column, then box, the first Break wins
Checks(b, poss, pos) ==
    LET r1 == check_region(b, poss, poss[pos], RowOthers(pos))
    IN  IF r1.brk THEN r1.np
        ELSE LET r2 == check_region(b, poss, r1.np, ColOthers(pos))
             IN  IF r2.brk THEN r2.np
                 ELSE check_region(b, poss, r2.np, BoxOthers(pos)).np

\* the iteration as it would be if its match had no arm &[value]
SweepCell_no_confirm(b, poss, adj, pos) ==
    LET undet == b[pos] = None
        new_possibilities == IF undet THEN Checks(b, poss, pos) ELSE poss[pos]
        remaining_possibilities == Take(ChoicesIter(new_possibilities), 2)
    IN  [poss |-> IF undet THEN [poss EXCEPT ![pos] = new_possibilities]
                  ELSE poss,
         adjusted |-> adj \/ (undet /\ new_possibilities # poss[pos]),
         arm |-> IF Len(remaining_possibilities) = 0 THEN "empty" ELSE "none",
         value |-> None]

\* the iteration as it would be if it set adjusted for every undetermined
\* cell, changed or not
SweepCell_always_adjusted(b, poss, adj, pos) ==
    LET undet == b[pos] = None
        new_possibilities == IF undet THEN Checks(b, poss, pos) ELSE poss[pos]
        remaining_possibilities == Take(ChoicesIter(new_possibilities), 2)
    IN  [poss |-> IF undet THEN [poss EXCEPT ![pos] = new_possibilities]
                  ELSE poss,
         adjusted |-> adj \/ undet,
         arm |-> IF Len(remaining_possibilities) = 0 THEN "empty"
                 ELSE IF Len(remaining_possibilities) = 1 /\ undet THEN "set"
                 ELSE "none",
         value |-> IF Len(remaining_possibilities) = 1
                   THEN remaining_possibilities[1] ELSE None]

\* One iteration of reduce's for i in 0..81, up to its match: the cell's new
\* candidate set, adjusted, and the arm taken: "empty" (is_invalid = true;
\* break), "set" (the call set(self, .., (x, y), value)) or "none".
SweepCell(b, poss, adj, pos) ==
    LET undet == b[pos] = None
        new_possibilities == IF undet THEN Checks(b, poss, pos) ELSE poss[pos]
        remaining_possibilities == Take(ChoicesIter(new_possibilities), 2)
    IN  [poss |-> IF undet THEN [poss EXCEPT ![pos] = new_possibilities]
                  ELSE poss,
         adjusted |-> adj \/ (undet /\ new_possibilities # poss[pos]),
         arm |-> IF Len(remaining_possibilities) = 0 THEN "empty"
                 ELSE IF Len(remaining_possibilities) = 1 /\ undet THEN "set"
                 ELSE "none",
         value |-> IF Len(remaining_possibilities) = 1
                   THEN remaining_possibilities[1] ELSE None]

\* the for loop over the cells i .. row_end - 1 of one row, as far as it runs
\* without calling set ("none": the row is done and the loop goes on)
RECURSIVE SweepRow(_, _, _, _, _)
SweepRow(b, poss, adj, i, row_end) ==
    IF i >= row_end
    THEN [poss |-> poss, adjusted |-> adj, i |-> i, out |-> "none",
          value |-> None]
    ELSE LET r == SweepCell(b, poss, adj, i)
         IN  IF r.arm = "none"
             THEN SweepRow(b, r.poss, r.adjusted, i + 1, row_end)
             ELSE [poss |-> r.poss, adjusted |-> r.adjusted, i |-> i,
                   out |-> r.arm, value |-> r.value]

\* the for loop from cell i, as far as it runs without calling set: to its
\* end ("end"), to an empty candidate set ("empty") or to a call of set
\* ("set", at cell i for value). The 81 iterations are taken row by row,
\* which only bounds the depth of the evaluation.
RECURSIVE SweepFrom(_, _, _, _)
SweepFrom(b, poss, adj, i) ==
    IF i >= NumCells
    THEN [poss |-> poss, adjusted |-> adj, i |-> i, out |-> "end",
          value |-> None]
    ELSE LET r == SweepRow(b, poss, adj, i, (PosY(i) + 1) * Side)
         IN  IF r.out = "none" THEN SweepFrom(b, r.poss, r.adjusted, r.i)
             ELSE r

\* -------------------------------------------------------------- next
\* Option<(usize, Space)> and Option<SudokuBoard> are sequences of at most
\* one element: << >> is None.
NoIndex == << >>
NoItem == << >>
FirstSpace == 1

\* next_states as it would be if it started the iterator whatever reduce
\* returned
NewIndex_ignores_invalid(invalid) == << 0, FirstSpace >>

\* next_states: index: (!is_invalid).then_some((0, Space::One))
NewIndex(invalid) == IF ~invalid THEN << 0, FirstSpace >> ELSE NoIndex

\* the step as it would be if it left a cell one value early
Advance_leaves_early(board_index, space_index) ==
    IF space_index >= Side - 1 THEN << board_index + 1, FirstSpace >>
    ELSE << board_index, space_index + 1 >>

\* Space::succ applied to the iterator's (board_index, space_index)
Advance(board_index, space_index) ==
    IF space_index = Side THEN << board_index + 1, FirstSpace >>
    ELSE << board_index, space_index + 1 >>

\* the arm as it would be if it ended the iteration at a determined cell
SkipDetermined_stops(rb, board_index) == NumCells

\* the arm if reduced_board[(x, y)].is_some() { *board_index += 1; continue }
\* taken until it no longer applies: the first undetermined cell from
\* board_index on, or 81
SkipDetermined(rb, board_index) ==
    LET open == {j \in board_index .. (NumCells - 1) : rb[j] = None}
    IN  IF open = {} THEN NumCells
        ELSE CHOOSE j \in open : \A l \in open : j <= l

\* next as it would be if the arm of a solved board left the index in place
RECURSIVE next_keeps_index(_, _, _)
next_keeps_index(rb, poss, idx) ==
    IF idx = NoIndex THEN [index |-> NoIndex, item |-> NoItem]
    ELSE IF idx[1] >= NumCells THEN [index |-> NoIndex, item |-> NoItem]
    ELSE IF is_solution(rb) THEN [index |-> idx, item |-> << rb >>]
    ELSE IF rb[idx[1]] # None
    THEN next_keeps_index(rb, poss, << SkipDetermined(rb, idx[1]), idx[2] >>)
    ELSE IF idx[2] \in poss[idx[1]]
    THEN [index |-> Advance(idx[1], idx[2]),
          item |-> << [rb EXCEPT ![idx[1]] = idx[2]] >>]
    ELSE next_keeps_index(rb, poss, Advance(idx[1], idx[2]))

\* next as it would be if it offered every value, struck or not
RECURSIVE next_offers_struck(_, _, _)
next_offers_struck(rb, poss, idx) ==
    IF idx = NoIndex THEN [index |-> NoIndex, item |-> NoItem]
    ELSE IF idx[1] >= NumCells THEN [index |-> NoIndex, item |-> NoItem]
    ELSE IF is_solution(rb) THEN [index |-> NoIndex, item |-> << rb >>]
    ELSE IF rb[idx[1]] # None
    THEN next_offers_struck(rb, poss, << SkipDetermined(rb, idx[1]), idx[2] >>)
    ELSE [index |-> Advance(idx[1], idx[2]),
          item |-> << [rb EXCEPT ![idx[1]] = idx[2]] >>]

\* next as it would be if it returned the reduced board without filling
\* the cell in
RECURSIVE next_leaves_cell(_, _, _)
next_leaves_cell(rb, poss, idx) ==
    IF idx = NoIndex THEN [index |-> NoIndex, item |-> NoItem]
    ELSE IF idx[1] >= NumCells THEN [index |-> NoIndex, item |-> NoItem]
    ELSE IF is_solution(rb) THEN [index |-> NoIndex, item |-> << rb >>]
    ELSE IF rb[idx[1]] # None
    THEN next_leaves_cell(rb, poss, << SkipDetermined(rb, idx[1]), idx[2] >>)
    ELSE IF idx[2] \in poss[idx[1]]
    THEN [index |-> Advance(idx[1], idx[2]), item |-> << rb >>]
    ELSE next_leaves_cell(rb, poss, Advance(idx[1], idx[2]))

\* NextSudokuBoardsIterator::next: the whole loop, to its return
RECURSIVE next(_, _, _)
next(rb, poss, idx) ==
    IF idx = NoIndex THEN [index |-> NoIndex, item |-> NoItem]
    ELSE IF idx[1] >= NumCells THEN [index |-> NoIndex, item |-> NoItem]
    ELSE IF is_solution(rb) THEN [index |-> NoIndex, item |-> << rb >>]
    ELSE IF rb[idx[1]] # None
    THEN next(rb, poss, << SkipDetermined(rb, idx[1]), idx[2] >>)
    ELSE IF idx[2] \in poss[idx[1]]
    THEN [index |-> Advance(idx[1], idx[2]),
          item |-> << [rb EXCEPT ![idx[1]] = idx[2]] >>]
    ELSE next(rb, poss, Advance(idx[1], idx[2]))

\* ----------------------------------------------------------- validate
\* verify_set as it would be if it remembered only the value before
RECURSIVE verify_set_forgets(_, _, _)
verify_set_forgets(it, k, choices) ==
    IF k > Len(it) THEN None
    ELSE IF it[k] \in choices THEN it[k]
    ELSE verify_set_forgets(it, k + 1, {it[k]})

\* verify_set: the first value met a second time, or None
RECURSIVE verify_set(_, _, _)
verify_set(it, k, choices) ==
    IF k > Len(it) THEN None
    ELSE IF it[k] \in choices THEN it[k]
    ELSE verify_set(it, k + 1, choices \cup {it[k]})

\* (0..9).filter_map(...): the determined values of a region, in scan order
FilterSome(seq) == SelectSeq(seq, LAMBDA v : v # None)
RowValues(b, i) == FilterSome([x \in 1 .. Side |-> b[Idx(x - 1, i)]])
ColValues(b, i) == FilterSome([y \in 1 .. Side |-> b[Idx(i, y - 1)]])
BoxValues(b, i) ==
    LET left == (i % BoxSide) * BoxSide
        top == (i \div BoxSide) * BoxSide
    IN  FilterSome([j \in 1 .. Side |->
            b[Idx(left + ((j - 1) % BoxSide), top + ((j - 1) \div BoxSide))]])

Ok == [kind |-> "Ok", i |-> 0, space |-> None]

\* validate as it would be if it looked at column i before row i
RECURSIVE ValidateFrom_column_first(_, _)
ValidateFrom_column_first(b, i) ==
    IF i >= Side THEN Ok
    ELSE LET r == verify_set(RowValues(b, i), 1, {})
             c == verify_set(ColValues(b, i), 1, {})
             s == verify_set(BoxValues(b, i), 1, {})
         IN  IF c # None THEN [kind |-> "Column", i |-> i, space |-> c]
             ELSE IF r # None THEN [kind |-> "Row", i |-> i, space |-> r]
             ELSE IF s # None THEN [kind |-> "Square", i |-> i, space |-> s]
             ELSE ValidateFrom_column_first(b, i + 1)

\* validate: for i in 0..9 { row i; column i; square i }, the first Err
RECURSIVE ValidateFrom(_, _)
ValidateFrom(b, i) ==
    IF i >= Side THEN Ok
    ELSE LET r == verify_set(RowValues(b, i), 1, {})
             c == verify_set(ColValues(b, i), 1, {})
             s == verify_set(BoxValues(b, i), 1, {})
         IN  IF r # None THEN [kind |-> "Row", i |-> i, space |-> r]
             ELSE IF c # None THEN [kind |-> "Column", i |-> i, space |-> c]
             ELSE IF s # None THEN [kind |-> "Square", i |-> i, space |-> s]
             ELSE ValidateFrom(b, i + 1)

validate(b) == ValidateFrom(b, 0)

\* --------------------------------------------------- from_str, Display
\* A literal (&str) is a sequence of characters, each a string of one
\* character.
Newline == "\n"
Blank == " "

\* char::to_digit(10): the decimal digits, the digit d at index d + 1
DecimalDigits == << "0", "1", "2", "3", "4", "5", "6", "7", "8", "9" >>
IsDigit(chr) == \E d \in 1 .. Len(DecimalDigits) : DecimalDigits[d] = chr
to_digit(chr) ==
    (CHOOSE d \in 1 .. Len(DecimalDigits) : DecimalDigits[d] = chr) - 1

\* the match of from_str on one character: ' ' => Ok(None), '1'..='9' =>
\* Ok(Some(Space::try_from(to_digit))), _ => Err(..) (chr: the character
\* the message names)
ParseChar(chr) ==
    IF chr = Blank THEN [ok |-> TRUE, cell |-> None, chr |-> chr]
    ELSE IF IsDigit(chr) /\ to_digit(chr) \in Spaces
    THEN [ok |-> TRUE, cell |-> to_digit(chr), chr |-> chr]
    ELSE [ok |-> FALSE, cell |-> None, chr |-> chr]

\* row.chars().map(..).collect::<Result<Vec<_>, _>>(): the cells of the
\* row, or Err as soon as one character is refused
ParseRow(row) ==
    IF \A i \in 1 .. Len(row) : ParseChar(row[i]).ok
    THEN [ok |-> TRUE, cells |-> [i \in 1 .. Len(row) |-> ParseChar(row[i]).cell]]
    ELSE [ok |-> FALSE, cells |-> << >>]

\* s.split('\n'): the stretches between the newlines, one more than there
\* are newlines
Split(s) ==
    LET sep == SelectSeq([i \in 1 .. Len(s) |-> i], LAMBDA i : s[i] = Newline)
    IN  [k \in 1 .. (Len(sep) + 1) |->
            SubSeq(s, IF k = 1 THEN 1 ELSE sep[k - 1] + 1,
                      IF k = Len(sep) + 1 THEN Len(s) ELSE sep[k] - 1)]

\* .flat_map(|row| ..).flatten().collect::<Vec<_>>(): flat_map iterates
\* each row's Result, which yields its Vec when it is Ok and nothing when
\* it is Err; flatten then chains the Vecs
RECURSIVE FlatMapRows(_, _)
FlatMapRows(rows, k) ==
    IF k > Len(rows) THEN << >>
    ELSE LET r == ParseRow(rows[k])
         IN  (IF r.ok THEN r.cells ELSE << >>) \o FlatMapRows(rows, k + 1)

IncorrectNumber == "Incorrect number of spaces on sudoku boad"

\* FromStr::from_str: Ok(Board(collect.try_into()..)) when collect has 81
\* cells, the error of map_err otherwise
from_str(s) ==
    LET collect == FlatMapRows(Split(s), 1)
    IN  IF Len(collect) = NumCells
        THEN [kind |-> "Ok", board |-> << [pos \in Positions |-> collect[pos + 1]] >>,
              msg |-> ""]
        ELSE [kind |-> "Err", board |-> << >>, msg |-> IncorrectNumber]

\* Display: None => " ", Some(space) => format!("{}", usize::from(space))
Glyph(cell) == IF cell = None THEN Blank ELSE DecimalDigits[cell + 1]

\* Vec<String>::join(sep) over the rows from k on
RECURSIVE Join(_, _)
Join(rows, k) ==
    IF k > Len(rows) THEN << >>
    ELSE IF k = Len(rows) THEN rows[k]
    ELSE rows[k] \o << Newline >> \o Join(rows, k + 1)

\* Display::fmt as it would be if it ended every row with a newline
Display_ends_rows(b) ==
    Join([y \in 1 .. Side |-> [x \in 1 .. Side |-> Glyph(b[Idx(x - 1, y - 1)])]],
         1) \o << Newline >>

\* Display::fmt: array_chunks of 9 cells, each joined by "", joined by "\n"
Display(b) ==
    Join([y \in 1 .. Side |-> [x \in 1 .. Side |-> Glyph(b[Idx(x - 1, y - 1)])]],
         1)

\* ------------------------------------------------------------- inputs
FromRows(rows) == [pos \in Positions |-> rows[PosY(pos) + 1][PosX(pos) + 1]]

\* the board literal of test_reduction
ClassicRows ==
    << <<5,3,0,0,7,0,0,0,0>>,
       <<6,0,0,1,9,5,0,0,0>>,
       <<0,9,8,0,0,0,0,6,0>>,
       <<8,0,0,0,6,0,0,0,3>>,
       <<4,0,0,8,0,3,0,0,1>>,
       <<7,0,0,0,2,0,0,0,6>>,
       <<0,6,0,0,0,0,2,8,0>>,
       <<0,0,0,4,1,9,0,0,5>>,
       <<0,0,0,0,8,0,0,7,9>> >>

\* a complete grid extending ClassicRows
ClassicGridRows ==
    << <<5,3,4,6,7,8,9,1,2>>,
       <<6,7,2,1,9,5,3,4,8>>,
       <<1,9,8,3,4,2,5,6,7>>,
       <<8,5,9,7,6,1,4,2,3>>,
       <<4,2,6,8,5,3,7,9,1>>,
       <<7,1,3,9,2,4,8,5,6>>,
       <<9,6,1,5,3,7,2,8,4>>,
       <<2,8,7,4,1,9,6,3,5>>,
       <<3,4,5,2,8,6,1,7,9>> >>

\* the board literal of test_solve_hard
HardRows ==
    << <<2,0,0,5,0,7,4,0,6>>,
       <<0,0,0,0,3,1,0,0,0>>,
       <<0,0,0,0,0,0,2,3,0>>,
       <<0,0,0,0,2,0,0,0,0>>,
       <<8,6,0,3,1,0,0,0,0>>,
       <<0,4,5,0,0,0,0,0,0>>,
       <<0,0,9,0,0,0,7,0,0>>,
       <<0,0,6,9,5,0,0,0,2>>,
       <<0,0,1,0,0,6,0,0,8>> >>

\* a complete grid extending HardRows
HardGridRows ==
    << <<2,3,8,5,9,7,4,1,6>>,
       <<6,9,4,2,3,1,8,5,7>>,
       <<5,1,7,8,6,4,2,3,9>>,
       <<1,7,3,4,2,9,6,8,5>>,
       <<8,6,2,3,1,5,9,7,4>>,
       <<9,4,5,6,7,8,3,2,1>>,
       <<4,5,9,1,8,2,7,6,3>>,
       <<7,8,6,9,5,3,1,4,2>>,
       <<3,2,1,7,4,6,5,9,8>> >>

\* the board literal of test_solve_hard_2
Hard2Rows ==
    << <<0,0,6,5,0,0,0,0,0>>,
       <<7,0,5,0,0,2,3,0,0>>,
       <<0,3,0,0,0,0,0,8,0>>,
       <<0,5,0,0,9,6,0,7,0>>,
       <<1,0,4,0,0,0,0,0,8>>,
       <<0,0,0,8,2,0,0,0,0>>,
       <<0,2,0,0,0,0,0,9,0>>,
       <<0,0,7,2,0,0,4,0,0>>,
       <<0,0,0,0,0,7,5,0,0>> >>

\* a complete grid extending Hard2Rows
Hard2GridRows ==
    << <<2,9,6,5,8,3,7,4,1>>,
       <<7,8,5,1,4,2,3,6,9>>,
       <<4,3,1,7,6,9,2,8,5>>,
       <<8,5,2,4,9,6,1,7,3>>,
       <<1,6,4,3,7,5,9,2,8>>,
       <<3,7,9,8,2,1,6,5,4>>,
       <<5,2,3,6,1,4,8,9,7>>,
       <<9,1,7,2,5,8,4,3,6>>,
       <<6,4,8,9,3,7,5,1,2>> >>

\* the board literal of test_solve_hard_3
Hard3Rows ==
    << <<0,2,9,3,0,8,4,5,6>>,
       <<5,7,8,2,0,6,1,0,9>>,
       <<0,0,0,1,0,5,0,7,0>>,
       <<3,0,5,0,2,0,6,0,0>>,
       <<0,0,0,0,0,9,0,4,0>>,
       <<0,9,1,0,6,7,0,0,0>>,
       <<0,3,0,0,5,0,0,0,0>>,
       <<0,0,0,0,0,2,9,0,3>>,
       <<9,0,7,0,0,0,0,2,4>> >>

\* a complete grid extending Hard3Rows
Hard3GridRows ==
    << <<1,2,9,3,7,8,4,5,6>>,
       <<5,7,8,2,4,6,1,3,9>>,
       <<4,6,3,1,9,5,8,7,2>>,
       <<3,4,5,8,2,1,6,9,7>>,
       <<7,8,6,5,3,9,2,4,1>>,
       <<2,9,1,4,6,7,3,8,5>>,
       <<6,3,2,9,5,4,7,1,8>>,
       <<8,5,4,7,1,2,9,6,3>>,
       <<9,1,7,6,8,3,5,2,4>> >>

\* the board literal of test_solve_hard_4, main
Hard4Rows ==
    << <<5,0,8,4,2,7,0,0,0>>,
       <<0,4,0,0,1,0,7,0,0>>,
       <<1,9,0,0,0,3,0,0,2>>,
       <<0,0,0,0,6,0,0,0,5>>,
       <<7,0,0,0,0,0,2,0,0>>,
       <<6,0,5,1,3,0,9,0,0>>,
       <<9,0,0,0,0,1,5,0,0>>,
       <<0,0,0,0,4,0,0,2,0>>,
       <<0,7,0,0,0,0,0,0,8>> >>

\* a complete grid extending Hard4Rows
Hard4GridRows ==
    << <<5,6,8,4,2,7,3,1,9>>,
       <<3,4,2,9,1,5,7,8,6>>,
       <<1,9,7,6,8,3,4,5,2>>,
       <<2,1,9,7,6,4,8,3,5>>,
       <<7,3,4,5,9,8,2,6,1>>,
       <<6,8,5,1,3,2,9,7,4>>,
       <<9,2,6,8,7,1,5,4,3>>,
       <<8,5,1,3,4,9,6,2,7>>,
       <<4,7,3,2,5,6,1,9,8>> >>

\* the board literal of test_solo_candidate_deduction
SoloRows ==
    << <<0,0,0,0,0,0,0,0,0>>,
       <<3,0,0,0,0,0,0,0,0>>,
       <<6,0,0,0,0,0,0,0,0>>,
       <<2,0,0,0,0,0,0,0,0>>,
       <<1,0,0,0,0,0,0,0,0>>,
       <<0,0,0,0,0,4,0,0,0>>,
       <<8,0,0,0,0,0,0,0,0>>,
       <<5,0,0,0,0,0,0,0,0>>,
       <<0,0,0,0,0,0,0,4,0>> >>

\* a complete grid extending SoloRows
SoloGridRows ==
    << <<4,1,2,3,5,6,7,8,9>>,
       <<3,5,7,1,8,9,2,6,4>>,
       <<6,8,9,2,4,7,1,3,5>>,
       <<2,3,4,5,1,8,6,9,7>>,
       <<1,6,5,7,9,3,4,2,8>>,
       <<7,9,8,6,2,4,3,5,1>>,
       <<8,2,1,4,3,5,9,7,6>>,
       <<5,4,6,9,7,2,8,1,3>>,
       <<9,7,3,8,6,1,5,4,2>> >>

\* The input boards: a test's board literal, with at most one cell among
\* the first EditCells changed to any content; beside it a complete grid
\* (a solution of the unedited literal) that the claims about solvable
\* boards compare with.
Seeds ==
    << [b |-> FromRows(ClassicRows), grid |-> FromRows(ClassicGridRows)],
       [b |-> FromRows(HardRows), grid |-> FromRows(HardGridRows)],
       [b |-> FromRows(Hard2Rows), grid |-> FromRows(Hard2GridRows)],
       [b |-> FromRows(Hard3Rows), grid |-> FromRows(Hard3GridRows)],
       [b |-> FromRows(Hard4Rows), grid |-> FromRows(Hard4GridRows)],
       [b |-> FromRows(SoloRows), grid |-> FromRows(SoloGridRows)] >>

\* Init changes at most one cell among the first EditCells
EditCells == 5
\* the search driver expands at most MaxDepth boards in a row, each among the
\* first MaxBranch boards its iterator returned
MaxDepth == 1
MaxBranch == 1
\* next() is called at most MaxNone times after it has returned None
MaxNone == 2
\* reduce is called at most MaxCalls times on one board
MaxCalls == 2
\* the validator's harness assigns at most MaxPlaced cells, in the columns
\* and rows below PlaceSide, values up to PlaceSpaces
MaxPlaced == 2
PlaceSide == 4
PlaceSpaces == 2

\* IndexMut: board[(x, y)] = cell
Edited(b, pos, cell) == [b EXCEPT ![pos] = cell]

EmptyBoard == [pos \in Positions |-> None]

\* ------------------------------------------- what the claims speak of
SameRow(p, q) == PosY(p) = PosY(q)
SameCol(p, q) == PosX(p) = PosX(q)
SameBox(p, q) ==
    /\ PosX(p) \div BoxSide = PosX(q) \div BoxSide
    /\ PosY(p) \div BoxSide = PosY(q) \div BoxSide

\* the other cells of the row, the column and the box of each cell
PeersOf ==
    [p \in Positions |->
        {q \in Positions \ {p} :
            SameRow(p, q) \/ SameCol(p, q) \/ SameBox(p, q)}]

\* no two determined cells of one row, column or box hold the same value
NoDuplicate(b) ==
    \A p \in Positions :
        b[p] # None => \A q \in PeersOf[p] : b[q] # b[p]

\* the grid S agrees with every determined cell of b
Extends(S, b) == \A pos \in Positions : b[pos] # None => b[pos] = S[pos]

\* the complete grids without a duplicate among those Init draws from
SolutionGrids ==
    {Seeds[k].grid : k \in {j \in 1 .. Len(Seeds) :
        is_solution(Seeds[j].grid) /\ NoDuplicate(Seeds[j].grid)}}

NoResult == << >>

\* ------------------------------------------------------ state machine
VARIABLES
    board,                \* the board next_states is called on (self)
    grid,                 \* the complete grid compared with
    reduced_board,        \* the clone reduce works on
    possibilities_board,
    is_invalid,
    adjusted,
    cell_i,               \* reduce's for i in 0..81
    stack,                \* the frames of set, innermost last
    sweeps,               \* sweeps started by the current call of reduce
    pc,
    index,                \* the iterator's index
    item,                 \* what the last call of next() returned
    yielded,              \* how many boards the iterator has returned
    nones,                \* how many times next() has returned None
    hit,                  \* the iterator has returned a board grid extends
    depth,                \* expansions made by the search driver
    calls,                \* calls of reduce on reduced_board
    prev,                 \* what the previous call of reduce returned
    vres,                 \* what validate returned
    placed,               \* cells assigned by the validator's harness
    literal,              \* the &str handed to parse()
    parsed,               \* what from_str returned on literal
    rendered,             \* the parsed board, formatted
    reparsed,             \* what from_str returned on rendered
    edits                 \* changes made to the literal

reduce_vars == << reduced_board, possibilities_board, is_invalid, adjusted,
                  cell_i, stack, sweeps >>
iter_vars == << index, item, yielded, nones, hit >>
parse_vars == << literal, parsed, rendered, reparsed, edits >>
vars == << board, grid, reduce_vars, pc, iter_vars, depth, calls, prev, vres,
           placed, parse_vars >>

Fresh ==
    /\ reduced_board = board
    /\ possibilities_board = PossNew(board)
    /\ is_invalid = FALSE
    /\ adjusted = FALSE
    /\ cell_i = 0
    /\ stack = << >>
    /\ sweeps = 0
    /\ pc = "start"
    /\ index = NoIndex
    /\ item = NoItem
    /\ yielded = 0
    /\ nones = 0
    /\ hit = FALSE
    /\ depth = 0
    /\ calls = 0
    /\ prev = NoResult
    /\ vres = NoResult
    /\ placed = 0

\* no literal is being parsed
NoParse ==
    /\ literal = << >>
    /\ parsed = NoResult
    /\ rendered = NoResult
    /\ reparsed = NoResult
    /\ edits = 0

Init ==
    /\ \E k \in 1 .. Len(Seeds) :
          /\ grid = Seeds[k].grid
          /\ \/ board = Seeds[k].b
             \/ \E pos \in 0 .. (EditCells - 1), cell \in {None} \cup Spaces :
                   board = Edited(Seeds[k].b, pos, cell)
    /\ Fresh
    /\ NoParse

\* reduce, entered: let mut possibilities_board = ...; is_invalid = false;
\* and the first pass of loop { let mut adjusted = false; ...
EnterReduce(b) ==
    /\ reduced_board' = b
    /\ possibilities_board' = PossNew(b)
    /\ is_invalid' = FALSE
    /\ adjusted' = FALSE
    /\ cell_i' = 0
    /\ stack' = << >>
    /\ sweeps' = 1
    /\ calls' = calls + 1
    /\ vres' = NoResult
    /\ pc' = "sweep"

\* next_states: let mut reduced_board = self.clone(); reduced_board.reduce()
NextStates ==
    /\ pc = "start"
    /\ EnterReduce(board)
    /\ prev' = NoResult
    /\ UNCHANGED << board, grid, parse_vars, iter_vars, depth, placed >>

\* a call set(.., pos, space) made with the frames stk below it and the
\* possibility board poss1: the cell and its candidate set are fixed, or the
\* cell is already set and unimplemented!() ends the program
EnterSet(stk, poss1, pos, space) ==
    IF reduced_board[pos] = None
    THEN /\ reduced_board' = [reduced_board EXCEPT ![pos] = space]
         /\ possibilities_board' = [poss1 EXCEPT ![pos] = ChoicesNew(space)]
         /\ stack' = Append(stk, [pos |-> pos, space |-> space, k |-> 0])
         /\ pc' = "set"
    ELSE /\ possibilities_board' = poss1
         /\ stack' = stk
         /\ pc' = "panic"
         /\ UNCHANGED reduced_board

\* the for loop of reduce, from cell_i to its next call of set, its break
\* or its end
SweepRun ==
    /\ pc = "sweep"
    /\ \E r \in {SweepFrom(reduced_board, possibilities_board, adjusted,
                            cell_i)} :
           /\ adjusted' = r.adjusted
           /\ cell_i' = r.i
           /\ CASE r.out = "set" ->
                     /\ EnterSet(stack, r.poss, r.i, r.value)
                     /\ UNCHANGED is_invalid
                [] r.out = "empty" ->
                     /\ possibilities_board' = r.poss
                     /\ is_invalid' = TRUE
                     /\ pc' = "loopexit"
                     /\ UNCHANGED << reduced_board, stack >>
                [] OTHER ->
                     /\ possibilities_board' = r.poss
                     /\ pc' = "loopexit"
                     /\ UNCHANGED << reduced_board, stack, is_invalid >>
    /\ UNCHANGED << board, grid, parse_vars, sweeps, iter_vars, depth, calls, prev, vres,
                    placed >>

\* the innermost call of set returns value: to attend_to_pos in the frame
\* below, which returns it to that frame's loop (true: is_invalid = true;
\* break), or to reduce (is_invalid |= set(..); if is_invalid { break })
Return(value) ==
    /\ stack' = SubSeq(stack, 1, Len(stack) - 1)
    /\ IF Len(stack) > 1
       THEN /\ pc' = IF value THEN "unwind" ELSE "set"
            /\ UNCHANGED << is_invalid, cell_i >>
       ELSE /\ is_invalid' = (is_invalid \/ value)
            /\ cell_i' = IF is_invalid \/ value THEN cell_i ELSE cell_i + 1
            /\ pc' = IF is_invalid \/ value \/ cell_i + 1 >= NumCells
                     THEN "loopexit" ELSE "sweep"

\* the loop of the innermost call of set, from its target k to its next
\* recursive call, its break or its end
SetRun ==
    /\ pc = "set"
    /\ \E top \in {stack[Len(stack)]} :
       \E r \in {SetLoop(reduced_board, possibilities_board, top.pos,
                         top.space, top.k)} :
           CASE r.out = "call" ->
                     /\ EnterSet([stack EXCEPT ![Len(stack)].k = r.k + 1],
                                 r.poss, SetTarget(top.pos, r.k), r.only)
                     /\ UNCHANGED << is_invalid, cell_i >>
             [] r.out = "invalid" ->
                     /\ possibilities_board' = r.poss
                     /\ Return(TRUE)
                     /\ UNCHANGED reduced_board
             [] OTHER ->
                     /\ possibilities_board' = r.poss
                     /\ Return(FALSE)
                     /\ UNCHANGED reduced_board
    /\ UNCHANGED << board, grid, parse_vars, adjusted, sweeps, iter_vars, depth, calls,
                    prev, vres, placed >>

\* a frame whose recursive call returned true returns true in turn
Unwind ==
    /\ pc = "unwind"
    /\ Return(TRUE)
    /\ UNCHANGED << board, grid, parse_vars, reduced_board, possibilities_board, adjusted,
                    sweeps, iter_vars, depth, calls, prev, vres, placed >>

\* if !adjusted || self.is_solution() { break } and reduce's return
LoopExit ==
    /\ pc = "loopexit"
    /\ IF ~adjusted \/ is_solution(reduced_board)
       THEN /\ pc' = "reduced"
            /\ UNCHANGED << adjusted, cell_i, sweeps >>
       ELSE /\ pc' = "sweep"
            /\ adjusted' = FALSE
            /\ cell_i' = 0
            /\ sweeps' = sweeps + 1
    /\ UNCHANGED << board, grid, parse_vars, reduced_board, possibilities_board,
                    is_invalid, stack, iter_vars, depth, calls, prev, vres,
                    placed >>

\* validate, called on the board as given or as reduce has left it
Validate ==
    /\ pc \in {"start", "reduced"}
    /\ vres = NoResult
    /\ vres' = << validate(IF pc = "start" THEN board ELSE reduced_board) >>
    /\ UNCHANGED << board, grid, parse_vars, reduce_vars, pc, iter_vars, depth, calls,
                    prev, placed >>

\* next_states' return, after its one call of reduce: the iterator over the
\* reduced board
MakeIterator ==
    /\ pc = "reduced"
    /\ calls = 1
    /\ index' = NewIndex(is_invalid)
    /\ hit' = FALSE
    /\ item' = NoItem
    /\ yielded' = 0
    /\ nones' = 0
    /\ vres' = NoResult
    /\ pc' = "iter"
    /\ UNCHANGED << board, grid, parse_vars, reduce_vars, depth, calls, prev, placed >>

\* a further call of reduce on the board a call of reduce has left
ReduceAgain ==
    /\ pc = "reduced"
    /\ calls < MaxCalls
    /\ prev' = << [board |-> reduced_board, poss |-> possibilities_board,
                   is_invalid |-> is_invalid] >>
    /\ EnterReduce(reduced_board)
    /\ UNCHANGED << board, grid, parse_vars, iter_vars, depth, placed >>

\* a call of next() on the iterator
IterNext ==
    /\ pc = "iter"
    /\ nones < MaxNone
    /\ \E r \in {next(reduced_board, possibilities_board, index)} :
           /\ index' = r.index
           /\ item' = r.item
           /\ yielded' = IF r.item = NoItem THEN yielded ELSE yielded + 1
           /\ nones' = IF r.item = NoItem THEN nones + 1 ELSE nones
           /\ hit' = (hit \/ (r.item # NoItem /\ Extends(grid, r.item[1])))
    /\ UNCHANGED << board, grid, parse_vars, reduce_vars, pc, depth, calls, prev, vres,
                    placed >>

\* the search driver expands the board the iterator has just returned
Visit ==
    /\ pc = "iter"
    /\ item # NoItem
    /\ depth < MaxDepth
    /\ yielded <= MaxBranch
    /\ board' = item[1]
    /\ depth' = depth + 1
    /\ pc' = "start"
    /\ calls' = 0
    /\ UNCHANGED << grid, parse_vars, reduce_vars, iter_vars, prev, vres, placed >>

Next == NextStates \/ SweepRun \/ SetRun \/ Unwind \/ LoopExit \/ Validate
            \/ MakeIterator \/ ReduceAgain \/ IterNext \/ Visit

Spec == Init /\ [][Next]_vars

\* reduce is straight-line code: each of its steps is taken when it can be.
\* SweepRun and SetRun assign every variable from the state alone and change
\* cell_i, stack or pc, so SweepRun is enabled exactly when pc = "sweep" and
\* SetRun exactly when pc = "set"; their weak fairness is written out with
\* these guards in the place of ENABLED.
FairSpec ==
    /\ Spec
    /\ WF_vars(Unwind)
    /\ WF_vars(LoopExit)
    /\ ([]<>(pc # "sweep") \/ []<><<SweepRun>>_vars)
    /\ ([]<>(pc # "set") \/ []<><<SetRun>>_vars)

\* ------------------------------------------- the validator's harness
\* A board is built by assignments board[(x, y)] = Some(space) and handed
\* to validate.
InitValidate ==
    /\ board \in {EmptyBoard, FromRows(ClassicRows), FromRows(HardRows)}
    /\ grid = board
    /\ Fresh
    /\ NoParse

Place ==
    /\ pc = "start"
    /\ placed < MaxPlaced
    /\ \E x \in 0 .. (PlaceSide - 1), y \in 0 .. (PlaceSide - 1),
          space \in 1 .. PlaceSpaces :
          board' = Edited(board, Idx(x, y), space)
    /\ placed' = placed + 1
    /\ vres' = NoResult
    /\ UNCHANGED << grid, parse_vars, reduce_vars, pc, iter_vars, depth, calls, prev >>

ValidateBoard ==
    /\ pc = "start"
    /\ vres = NoResult
    /\ vres' = << validate(board) >>
    /\ UNCHANGED << board, grid, parse_vars, reduce_vars, pc, iter_vars, depth, calls,
                    prev, placed >>

NextValidate == Place \/ ValidateBoard

SpecValidate == InitValidate /\ [][NextValidate]_vars

\* ---------------------------------------------- the parser's harness
\* A literal is one of the tests' board_str, changed by at most MaxEdits
\* insertions, replacements or removals of a character; it is parsed, the
\* board formatted and the result parsed again.
MaxEdits == 2
\* the changes are made at the first EditPos characters or at the end
EditPos == 2
\* the characters put in: one the parser refuses, a newline, a digit
EditChars == {"x", Newline, "7"}

\* the board_str of a test, from its rows
Literal(rows) ==
    Join([y \in 1 .. Len(rows) |->
            [x \in 1 .. Len(rows[y]) |-> Glyph(rows[y][x])]], 1)

InsertAt(s, i, chr) == SubSeq(s, 1, i - 1) \o << chr >> \o SubSeq(s, i, Len(s))
RemoveAt(s, i) == SubSeq(s, 1, i - 1) \o SubSeq(s, i + 1, Len(s))

InitParse ==
    /\ board = EmptyBoard
    /\ grid = board
    /\ Fresh
    /\ literal \in {Literal(ClassicRows), Literal(HardRows), Literal(SoloRows)}
    /\ parsed = NoResult
    /\ rendered = NoResult
    /\ reparsed = NoResult
    /\ edits = 0

EditLiteral ==
    /\ parsed = NoResult
    /\ edits < MaxEdits
    /\ \E i \in (1 .. EditPos) \cup {Len(literal), Len(literal) + 1} :
          \/ \E chr \in EditChars : literal' = InsertAt(literal, i, chr)
          \/ /\ i <= Len(literal)
             /\ \E chr \in EditChars : literal' = [literal EXCEPT ![i] = chr]
          \/ /\ i <= Len(literal)
             /\ literal' = RemoveAt(literal, i)
    /\ edits' = edits + 1
    /\ UNCHANGED << board, grid, reduce_vars, pc, iter_vars, depth, calls,
                    prev, vres, placed, parsed, rendered, reparsed >>

\* let board: SudokuBoard = board_str.parse()
Parse ==
    /\ parsed = NoResult
    /\ parsed' = << from_str(literal) >>
    /\ UNCHANGED << board, grid, reduce_vars, pc, iter_vars, depth, calls,
                    prev, vres, placed, literal, rendered, reparsed, edits >>

\* format!("{}", board) on the board parse() returned
Render ==
    /\ parsed # NoResult
    /\ parsed[1].kind = "Ok"
    /\ rendered = NoResult
    /\ rendered' = << Display(parsed[1].board[1]) >>
    /\ UNCHANGED << board, grid, reduce_vars, pc, iter_vars, depth, calls,
                    prev, vres, placed, literal, parsed, reparsed, edits >>

\* parse() on the formatted board
Reparse ==
    /\ rendered # NoResult
    /\ reparsed = NoResult
    /\ reparsed' = << from_str(rendered[1]) >>
    /\ UNCHANGED << board, grid, reduce_vars, pc, iter_vars, depth, calls,
                    prev, vres, placed, literal, parsed, rendered, edits >>

NextParse == EditLiteral \/ Parse \/ Render \/ Reparse

SpecParse == InitParse /\ [][NextParse]_vars

\* ---------------------------------------- what the parser's claims speak of
ValidChars == {Blank} \cup {DecimalDigits[d + 1] : d \in Spaces}
\* the characters of the literal that are no newline: one cell each
CellChars(s) == SelectSeq(s, LAMBDA chr : chr # Newline)
\* 9 rows of 9 characters, digits 1-9 or spaces, joined by newlines
WellFormed(s) ==
    /\ Len(s) = Side * (Side + 1) - 1
    /\ \A i \in 1 .. Len(s) :
          IF i % (Side + 1) = 0 THEN s[i] = Newline ELSE s[i] \in ValidChars
\* character x of row y of a well-formed literal
CharAt(s, x, y) == s[y * (Side + 1) + x + 1]

\* C11 (as stated): parsing returns an error whenever some row holds a
\* character other than '1'-'9' or space and whenever the rows do not give
\* exactly 81 cells; it returns a board only when every character of every
\* row is a digit 1-9 or a space and the cells are exactly 81.
C11_ParseRejectsBadLiterals ==
    parsed # NoResult =>
        (parsed[1].kind = "Ok" <=>
            /\ \A i \in 1 .. Len(literal) : literal[i] \in ValidChars \cup {Newline}
            /\ Len(CellChars(literal)) = NumCells)

\* C12: a literal of 9 rows of 9 characters 1-9 or space is parsed to a
\* board whose cell (x, y) is character x of row y and whose formatting is
\* the literal again; and parsing the formatting of a board gives the board.
C12_RoundTrip ==
    /\ (parsed # NoResult /\ WellFormed(literal)) =>
          /\ parsed[1].kind = "Ok"
          /\ \A x \in 0 .. (Side - 1) : \A y \in 0 .. (Side - 1) :
                Glyph(parsed[1].board[1][Idx(x, y)]) = CharAt(literal, x, y)
          /\ rendered # NoResult => rendered[1] = literal
    /\ reparsed # NoResult =>
          /\ reparsed[1].kind = "Ok"
          /\ reparsed[1].board = parsed[1].board

\* C12's case: a changed literal that is still 9 rows of 9 has been parsed,
\* formatted and parsed again
C12_Witness ==
    /\ edits > 0
    /\ WellFormed(literal)
    /\ reparsed # NoResult
    /\ \E pos \in Positions : parsed[1].board[1][pos] # None

\* ------------------------------------------------------------- claims
\* what reduce has returned, seen from its caller
Returned == pc = "reduced"

\* C1 (as stated): for every input board, whenever reduce returns with the
\* invalid flag false, validate on the board reduce has left returns Ok.
C1_ReducedBoardValidates ==
    (Returned /\ ~is_invalid) => validate(reduced_board) = Ok

\* C2: propagation never loses a solution. When the complete duplicate-free
\* grid extends the board reduce was called on, reduce returns invalid =
\* false, every cell it has determined holds the grid's value and every
\* candidate set it returns contains the grid's value for its cell.
C2_NoSolutionLost ==
    (Returned /\ grid \in SolutionGrids /\ Extends(grid, board)) =>
        /\ ~is_invalid
        /\ Extends(grid, reduced_board)
        /\ \A pos \in Positions : grid[pos] \in possibilities_board[pos]

\* C2's case: reduce has returned on a board the grid extends, has determined
\* some cells and left others open
C2_Witness ==
    /\ Returned
    /\ grid \in SolutionGrids
    /\ Extends(grid, board)
    /\ score(reduced_board) > 0
    /\ score(reduced_board) < score(board)

\* the (cell, value) pairs of the undetermined cells of the reduced board and
\* their candidates, and how many of them come no later than (p, v) in
\* row-major order of the cells, ascending order of the values
Pairs ==
    {pv \in Positions \X Spaces :
        /\ reduced_board[pv[1]] = None
        /\ pv[2] \in possibilities_board[pv[1]]}
Rank(p, v) ==
    Cardinality({pv \in Pairs : pv[1] < p \/ (pv[1] = p /\ pv[2] <= v)})
Changed(b) == {pos \in Positions : b[pos] # reduced_board[pos]}

\* C3: when reduce returned invalid = false and the reduced board is not
\* fully determined, the k-th board the iterator returns is the reduced board
\* with the k-th (cell, value) pair filled in, the pairs taken over the
\* undetermined cells in row-major order and over each cell's candidates in
\* ascending order; the iterator returns None once every pair has been
\* returned, so the boards returned are as many as the pairs, each has one
\* more determined cell and none comes twice.
C3_SuccessorsInOrder ==
    (pc = "iter" /\ ~is_invalid /\ ~is_solution(reduced_board)) =>
        /\ item # NoItem =>
              /\ Cardinality(Changed(item[1])) = 1
              /\ score(item[1]) = score(reduced_board) - 1
              /\ \A p \in Changed(item[1]) :
                    /\ << p, item[1][p] >> \in Pairs
                    /\ Rank(p, item[1][p]) = yielded
        /\ (item = NoItem /\ nones > 0) => yielded = Cardinality(Pairs)

\* C3's case: the iterator has returned every successor of a reduced board
\* on which some undetermined cell has several candidates, then None
C3_Witness ==
    /\ pc = "iter"
    /\ ~is_invalid
    /\ ~is_solution(reduced_board)
    /\ item = NoItem
    /\ nones > 0
    /\ yielded > score(reduced_board)

\* C4: when reduce returned invalid = true the iterator returns no board:
\* its first and every later call of next() returns None, also when the
\* reduced board is fully determined.
C4_InvalidYieldsNothing ==
    (pc = "iter" /\ is_invalid) =>
        /\ index = NoIndex
        /\ item = NoItem
        /\ yielded = 0

\* C4's case: next() has been called more than once on the iterator of a
\* board that reduce found invalid and left fully determined
C4_Witness ==
    /\ pc = "iter"
    /\ is_invalid
    /\ is_solution(reduced_board)
    /\ nones > 1

\* C5: when reduce returned invalid = false and the reduced board is fully
\* determined, the iterator returns that board once and None ever after.
C5_SolvedYieldsItself ==
    (pc = "iter" /\ ~is_invalid /\ is_solution(reduced_board)) =>
        /\ yielded <= 1
        /\ item # NoItem => (item[1] = reduced_board /\ yielded = 1 /\ nones = 0)
        /\ nones > 0 => (item = NoItem /\ yielded = 1)
        /\ (yielded = 0) = (index # NoIndex)

\* C5's case: the iterator of a fully determined board has returned the
\* board and then None, more than once
C5_Witness ==
    /\ pc = "iter"
    /\ ~is_invalid
    /\ is_solution(reduced_board)
    /\ yielded = 1
    /\ nones > 1

\* C6: the search keeps every solution. For a board the complete
\* duplicate-free grid extends, the iterator of next_states has returned,
\* by the time it returns None, a board that the grid still extends (the
\* grid itself when the board reduces to it).
C6_SolutionKept ==
    (pc = "iter" /\ grid \in SolutionGrids /\ Extends(grid, board)
        /\ nones > 0) => hit

\* C6's case: a board reached by an expansion, which the grid extends and
\* whose reduced board is open, has had its successors enumerated to the end
C6_Witness ==
    /\ pc = "iter"
    /\ grid \in SolutionGrids
    /\ Extends(grid, board)
    /\ depth > 0
    /\ ~is_solution(reduced_board)
    /\ nones > 0
    /\ hit

\* C7 (as stated): when reduce returned invalid = false, a second call on
\* the board it left changes no cell, returns invalid = false and the same
\* possibility board, and ends after one sweep (adjusted is false after the
\* first pass).
C7_Idempotent ==
    (Returned /\ calls > 1 /\ prev # NoResult /\ ~prev[1].is_invalid) =>
        /\ reduced_board = prev[1].board
        /\ ~is_invalid
        /\ possibilities_board = prev[1].poss
        /\ sweeps = 1

\* C8: one call of reduce on the classic puzzle returns invalid = false and
\* leaves the board fully determined (is_solution, score 0), and validate
\* returns Ok on it.
C8_ClassicSolved ==
    (Returned /\ calls = 1 /\ depth = 0 /\ board = FromRows(ClassicRows)) =>
        /\ ~is_invalid
        /\ is_solution(reduced_board)
        /\ score(reduced_board) = 0
        /\ validate(reduced_board) = Ok

\* C8's case: reduce has returned from its one call on the classic puzzle
C8_Witness ==
    /\ Returned
    /\ calls = 1
    /\ depth = 0
    /\ board = FromRows(ClassicRows)
    /\ score(board) > 0
    /\ reduced_board # board

\* C9: validate returns Ok exactly when no two determined cells of one row,
\* column or box hold the same value (empty cells never fail it), and the
\* call leaves the board as it was.
C9_ValidateIffNoDuplicate ==
    /\ [](vres # NoResult => (vres[1] = Ok <=> NoDuplicate(board)))
    /\ [][(vres' # vres /\ vres' # NoResult) => board' = board]_vars

\* C9's case: validate has rejected a board that has empty cells
C9_Witness ==
    /\ vres # NoResult
    /\ vres[1] # Ok
    /\ placed > 0
    /\ ~is_solution(board)

\* the regions validate names: the cells of row, column or square i
Kinds == << "Row", "Column", "Square" >>
KindRank(kind) == CHOOSE k \in 1 .. Len(Kinds) : Kinds[k] = kind
SquareOf(pos) ==
    (PosY(pos) \div BoxSide) * BoxSide + (PosX(pos) \div BoxSide)
Regions == {"Row", "Column", "Square"} \X (0 .. (Side - 1))
RegionCellsOf ==
    [reg \in Regions |->
        CASE reg[1] = "Row" -> {pos \in Positions : PosY(pos) = reg[2]}
          [] reg[1] = "Column" -> {pos \in Positions : PosX(pos) = reg[2]}
          [] OTHER -> {pos \in Positions : SquareOf(pos) = reg[2]}]
RegionCells(kind, i) == RegionCellsOf[<< kind, i >>]
Duplicated(b, kind, i, v) ==
    \E p \in RegionCells(kind, i) :
        b[p] = v /\ \E q \in RegionCells(kind, i) \ {p} : b[q] = v
HasDuplicate(b, kind, i) ==
    \E p \in RegionCells(kind, i) :
        b[p] # None /\ \E q \in RegionCells(kind, i) \ {p} : b[q] = b[p]

SetReturns == Len(stack') < Len(stack)
\* reduce is running
InReduce == pc \in {"sweep", "set", "unwind", "loopexit"}

\* C13 (as stated): whenever a call set(pos, v) made during reduce returns,
\* invalid or not, board[pos] holds v and the candidate set at pos is {v}.
C13_SetPostcondition ==
    [][SetReturns =>
        /\ reduced_board'[stack[Len(stack)].pos] = stack[Len(stack)].space
        /\ possibilities_board'[stack[Len(stack)].pos]
              = {stack[Len(stack)].space}]_vars

\* C13, for the calls of set that return false before any contradiction
\* has been found: to the frame below, or to the sweep, which goes on
C13_SetPostconditionValid ==
    [][(/\ SetReturns
        /\ pc = "set"
        /\ IF Len(stack) > 1 THEN pc' = "set" ELSE cell_i' = cell_i + 1) =>
        /\ reduced_board'[stack[Len(stack)].pos] = stack[Len(stack)].space
        /\ possibilities_board'[stack[Len(stack)].pos]
              = {stack[Len(stack)].space}]_vars

\* the board the current call of reduce was made on
InputBoard == IF calls > 1 /\ prev # NoResult THEN prev[1].board ELSE board

\* C14: for an input board that passes validate, when reduce returns invalid
\* = false, no cell has in its candidate set the value of a determined cell
\* of its row, column or box.
C14_DeterminedValuesStruck ==
    (Returned /\ ~is_invalid /\ validate(InputBoard) = Ok) =>
        \A p \in Positions :
            reduced_board[p] # None =>
                \A q \in PeersOf[p] :
                    reduced_board[p] \notin possibilities_board[q]

\* C14's case: reduce has returned invalid = false on a board that passes
\* validate, leaving cells it has determined beside cells still open
C14_Witness ==
    /\ Returned
    /\ ~is_invalid
    /\ validate(InputBoard) = Ok
    /\ score(reduced_board) > 0
    /\ score(reduced_board) < score(InputBoard)

\* C15: when reduce returns invalid = false, the candidate set of every
\* determined cell is the singleton of its value and the candidate set of
\* every undetermined cell has at least two values.
C15_SingletonsAreDetermined ==
    (Returned /\ ~is_invalid) =>
        \A p \in Positions :
            IF reduced_board[p] # None
            THEN possibilities_board[p] = {reduced_board[p]}
            ELSE Cardinality(possibilities_board[p]) >= 2

\* C15's case: reduce has returned invalid = false after cascades of set,
\* leaving cells open
C15_Witness ==
    /\ Returned
    /\ ~is_invalid
    /\ sweeps > 2
    /\ score(reduced_board) > 0
    /\ score(reduced_board) < score(InputBoard)

\* the candidates of cell c that no other cell of the region has
Hidden(c, region_positions) ==
    {v \in possibilities_board[c] :
        \A q \in region_positions : v \notin possibilities_board[q]}

\* C16: when reduce returns invalid = false, no undetermined cell has
\* exactly one candidate that is absent from the candidate sets of all the
\* other cells of its row, of its column or of its box; and on the board of
\* test_solo_candidate_deduction reduce determines cell (0, 0) as 4.
C16_HiddenSinglesApplied ==
    /\ (Returned /\ ~is_invalid) =>
          \A c \in Positions :
              reduced_board[c] = None =>
                  /\ Cardinality(Hidden(c, RowOthers(c))) # 1
                  /\ Cardinality(Hidden(c, ColOthers(c))) # 1
                  /\ Cardinality(Hidden(c, BoxOthers(c))) # 1
    /\ (Returned /\ calls = 1 /\ depth = 0 /\ board = FromRows(SoloRows)) =>
          /\ ~is_invalid
          /\ reduced_board[Idx(0, 0)] = 4

\* C16's case: reduce has returned on the board of
\* test_solo_candidate_deduction, with cells still open
C16_Witness ==
    /\ Returned
    /\ calls = 1
    /\ depth = 0
    /\ board = FromRows(SoloRows)
    /\ score(reduced_board) > 0
    /\ score(reduced_board) < score(board)

\* C17 (as stated): once the invalid flag is true during reduce, or a call
\* of set has found a contradiction, no further sweep is started and no cell
\* and no candidate set is changed before reduce returns.
C17_StopsAtContradiction ==
    [][(InReduce /\ (is_invalid \/ pc = "unwind")) =>
        /\ reduced_board' = reduced_board
        /\ possibilities_board' = possibilities_board
        /\ sweeps' = sweeps]_vars

\* C18: during reduce, set is never called on a cell that holds a value
\* (the unimplemented!() branch is never reached), and a cell that holds a
\* value keeps it until reduce returns.
C18_NeverOverwritten ==
    /\ [](pc # "panic")
    /\ [][InReduce =>
            \A p \in Positions :
                reduced_board[p] # None =>
                    reduced_board'[p] = reduced_board[p]]_vars

\* C18's case: calls of set nested in one another, each on a cell the
\* sweep or a cascade has just left with one candidate
C18_Witness ==
    /\ pc = "set"
    /\ Len(stack) > 2
    /\ \A k \in 1 .. Len(stack) :
          reduced_board[stack[k].pos] = stack[k].space

\* C19: reduce terminates on every input board. No step of reduce adds a
\* value to a candidate set or empties a determined cell; a stretch of a
\* sweep that sets adjusted has taken a value from some candidate set; the
\* calls of set nested in one another are never more than the undetermined
\* cells of the input; and reduce, once entered, returns.
C19_ReduceTerminates ==
    /\ [][InReduce =>
            \A p \in Positions :
                /\ possibilities_board'[p] \subseteq possibilities_board[p]
                /\ reduced_board[p] # None => reduced_board'[p] # None]_vars
    /\ [][(InReduce /\ ~adjusted /\ adjusted') =>
            \E p \in Positions :
                possibilities_board'[p] # possibilities_board[p]]_vars
    /\ [](InReduce => Len(stack) <= score(InputBoard))
    /\ (InReduce ~> ~InReduce)

\* C19's case: reduce has returned invalid = true after more than three
\* sweeps on a board that has a duplicate
C19_Witness ==
    /\ Returned
    /\ is_invalid
    /\ sweeps > 3
    /\ ~NoDuplicate(InputBoard)

\* C20: validity is preserved by expansion. When the board next_states is
\* called on passes validate, every board its iterator returns passes
\* validate and agrees with the board on every cell the board has
\* determined; a returned board that is fully determined has no duplicate
\* in any row, column or box. Checked for the starting boards and for the
\* boards the driver expands, each of which is a returned board; a chain of
\* expansions keeps both properties step by step.
C20_ExpansionKeepsValidity ==
    []((pc = "iter" /\ item # NoItem) =>
          \/ /\ Extends(item[1], board)
             /\ is_solution(item[1]) => NoDuplicate(item[1])
             /\ validate(item[1]) = Ok
          \/ validate(board) # Ok)

\* C20's case: the board is itself a board an expansion returned, it passes
\* validate, and its iterator has returned a second successor that is still
\* open
C20_Witness ==
    /\ pc = "iter"
    /\ depth > 0
    /\ validate(board) = Ok
    /\ item # NoItem
    /\ yielded > 1
    /\ ~is_solution(item[1])

\* C21: the score strictly decreases along expansion. Every board the
\* iterator of next_states(B) returns has a score below that of B when B is
\* not fully determined; a fully determined B has score 0, is_solution is
\* true of it and its iterator returns at most B itself; and the board the
\* driver expands next (one link of a chain of successors) has a score below
\* that of the board before it, or is that board, fully determined.
C21_ScoreDecreases ==
    /\ [](is_solution(board) <=> score(board) = 0)
    /\ []((pc = "iter" /\ item # NoItem) =>
            IF is_solution(board)
            THEN item[1] = board /\ yielded = 1
            ELSE score(item[1]) < score(board))
    /\ [][(pc = "iter" /\ pc' = "start") =>
            \/ score(board') < score(board)
            \/ is_solution(board) /\ board' = board]_vars

\* C21's case: a board an expansion returned, not fully determined, on which
\* reduce has determined cells, and a successor of it with a still lower score
C21_Witness ==
    /\ pc = "iter"
    /\ depth > 0
    /\ ~is_solution(board)
    /\ item # NoItem
    /\ score(item[1]) > 0
    /\ score(item[1]) < score(board) - 1

====
